---- MODULE Spec2Model ----
(***************************************************************************)
(* Model of caret_demos/src/end_to_end_sample.cpp: six rclcpp nodes spun   *)
(* by one MultiThreadedExecutor.                                           *)
(*                                                                         *)
(*   sensor_dummy_node --/topic1--> filter_node --/topic2-->               *)
(*   message_driven_node --/topic3--> timer_driven_node --/topic4-->       *)
(*   actuator_dummy_node,      drive_node --/drive--> message_driven_node  *)
(*                                                                         *)
(* A callback that sleeps is modelled in three steps: it is taken by an    *)
(* executor thread (and, for a subscription, given the message taken from  *)
(* the subscription's history), it returns from lognormal_distribution()   *)
(* with a latency and starts rclcpp::sleep_for, and it runs the statements *)
(* after the sleep.  Time is in milliseconds.                              *)
(***************************************************************************)
EXTENDS Integers, Sequences, FiniteSets, TLC

VARIABLES
  now,        \* the clock read by now() and by the wall timers (ms)
  nextCall,   \* per timer callback: the time of its next call
  slot,       \* per subscription: its history queue (KEEP_LAST, depth QOS_HISTORY_SIZE)
  pc,         \* per callback: "idle", "sampling" (in lognormal_distribution) or "sleeping"
  arg,        \* per callback: the msg parameter of the running invocation
  sleep_ms,   \* per callback: the value lognormal_distribution() returned to it
  wake,       \* per callback: the time at which its sleep_for returns
  msg_,       \* per node: the msg_ member of TimerDependencyNode / SubDependencyNode
  lastPub,    \* per topic: the message published last
  sinceTake,  \* per subscription: publishes to its topic since the last take
  invoked,    \* per callback: invocations started
  sampled,    \* per callback: calls of lognormal_distribution()
  pubs,       \* per callback: messages published
  stored,     \* per node: assignments to msg_ by the subscription callback
  mode,       \* the run explored: "main" (the topology of main(), timed),
              \* "chain" (source, relay and timer consumer only) or "untimed"
  ok,         \* rclcpp::ok(): FALSE once the shutdown signal has arrived
  exit,       \* "running", "return 0" (main returned) or "terminate"
  slotSeq,    \* per subscription: for each sample of slot, its index in the
              \* publish sequence of the topic
  observed,   \* per subscription: index and message of the sample taken last
  tickInput,  \* the message published last on the input topic of
              \* timer_driven_node when its running timer callback was taken
  delayed     \* TRUE once lognormal_distribution() has returned more than 0

vars == <<now, nextCall, slot, pc, arg, sleep_ms, wake, msg_, lastPub,
          sinceTake, invoked, sampled, pubs, stored, mode, ok, exit, slotSeq,
          observed, tickInput, delayed>>

\* The variables of the process as a whole.
proc == <<mode, ok, exit>>

----------------------------------------------------------------------------
(* Bounds of the model *)

\* The run is explored up to this time (ms).
MaxTime == 200

\* The run of the chain is explored up to this time (ms).
ChainTime == 500

\* Threads of the MultiThreadedExecutor (hardware dependent, at least two).
NumThreads == 2

\* A draw of the distribution is a fixed-point number: d stands for d / DrawDen ms.
DrawDen == 2

----------------------------------------------------------------------------
(* Program constants *)

QOS_HISTORY_SIZE == 1

max_latency_ms == 150

None == [stamp |-> -1, src |-> "none", seq |-> 0]

Nodes == {"actuator_dummy_node", "filter_node", "message_driven_node",
          "timer_driven_node", "sensor_dummy_node", "drive_node"}

Topics == {"/topic1", "/topic2", "/topic3", "/topic4", "/drive"}

\* The callbacks the constructors register, named node.member.
Subs == {"actuator_dummy_node.sub_", "filter_node.sub_",
         "message_driven_node.sub1_", "message_driven_node.sub2_",
         "timer_driven_node.sub_"}

Timers == {"timer_driven_node.timer_", "sensor_dummy_node.timer_",
           "drive_node.timer_"}

Callbacks == Subs \cup Timers

NodeOf == [c \in Callbacks |->
  CASE c = "actuator_dummy_node.sub_"   -> "actuator_dummy_node"
    [] c = "filter_node.sub_"           -> "filter_node"
    [] c = "message_driven_node.sub1_"  -> "message_driven_node"
    [] c = "message_driven_node.sub2_"  -> "message_driven_node"
    [] c = "timer_driven_node.sub_"     -> "timer_driven_node"
    [] c = "timer_driven_node.timer_"   -> "timer_driven_node"
    [] c = "sensor_dummy_node.timer_"   -> "sensor_dummy_node"
    [] c = "drive_node.timer_"          -> "drive_node"]

\* main(): the topic each subscription listens to.
SubTopic == [s \in Subs |->
  CASE s = "actuator_dummy_node.sub_"   -> "/topic4"
    [] s = "filter_node.sub_"           -> "/topic1"
    [] s = "message_driven_node.sub1_"  -> "/topic2"
    [] s = "message_driven_node.sub2_"  -> "/drive"
    [] s = "timer_driven_node.sub_"     -> "/topic3"]

\* main(): the topic each node's publisher writes to.
PubTopic == [n \in Nodes \ {"actuator_dummy_node"} |->
  CASE n = "filter_node"          -> "/topic2"
    [] n = "message_driven_node"  -> "/topic3"
    [] n = "timer_driven_node"    -> "/topic4"
    [] n = "sensor_dummy_node"    -> "/topic1"
    [] n = "drive_node"           -> "/drive"]

\* main(): the period of each wall timer (ms).
Period == [t \in Timers |->
  CASE t = "timer_driven_node.timer_"  -> 100
    [] t = "sensor_dummy_node.timer_"  -> 50
    [] t = "drive_node.timer_"         -> 100]

SensorNodes == {"sensor_dummy_node", "drive_node"}

\* The callback that publishes on each topic.
PublisherOf == [t \in Topics |->
  CASE t = "/topic1" -> "sensor_dummy_node.timer_"
    [] t = "/topic2" -> "filter_node.sub_"
    [] t = "/topic3" -> "message_driven_node.sub2_"
    [] t = "/topic4" -> "timer_driven_node.timer_"
    [] t = "/drive"  -> "drive_node.timer_"]

\* The chain  source --A--> relay --B--> timer consumer --C-->  built from the
\* same classes: sensor_dummy_node, filter_node and a timer_driven_node that
\* listens to the relay's output; A, B, C are /topic1, /topic2, /topic4.
ChainCallbacks == {"sensor_dummy_node.timer_", "filter_node.sub_",
                   "timer_driven_node.sub_", "timer_driven_node.timer_"}

\* The callbacks that exist in the run.
Present(c) == mode = "chain" => c \in ChainCallbacks

\* The topic subscription s listens to in the run.
InputTopic(s) ==
  IF mode = "chain" /\ s = "timer_driven_node.sub_" THEN "/topic2" ELSE SubTopic[s]

Listens(s, t) == Present(s) /\ InputTopic(s) = t

\* The untimed run abstracts from the clock: a timer is always ready and a
\* sleep may end at any time.
Timed == mode # "untimed"

\* The counters record the history of the run of main(); of the chain, only
\* the messages published on C are counted.
Count(x) == IF mode = "main" THEN x + 1 ELSE x

CountPub(c, x) ==
  IF mode = "main" \/ (mode = "chain" /\ c = "timer_driven_node.timer_")
    THEN x + 1 ELSE x

Horizon == IF mode = "chain" THEN ChainTime ELSE MaxTime

StateNodes == {"message_driven_node", "timer_driven_node"}

----------------------------------------------------------------------------
(* Helpers *)

Min(a, b) == IF a <= b THEN a ELSE b

SetMin(S) == CHOOSE x \in S : \A y \in S : x <= y

\* The values dist(engine) is drawn from, in units of 1/DrawDen ms: a draw
\* below 1.0, one in the middle, max_latency_ms itself and one far above it.
DrawSet == {1, (max_latency_ms \div 3) * DrawDen + 1, max_latency_ms * DrawDen,
            2 * max_latency_ms * DrawDen + 1}

\* Mutant of lognormal_distribution: the draw is not clamped.
lognormal_unclamped(d) == d \div DrawDen

\* int sleep_ms = std::min(dist(engine), max_latency_ms): the minimum of two
\* doubles, converted to int by truncation.
lognormal_distribution(d) == Min(d, max_latency_ms * DrawDen) \div DrawDen

\* The draws of a run: the chain, explored over a longer time, is explored
\* with the draws that give the two ends of the range; in the untimed run a
\* sleep ends at any time whatever its length, and one draw stands for all.
Draws ==
  CASE mode = "chain" ->
         {d \in DrawSet : lognormal_distribution(d) \in {0, max_latency_ms}}
    [] mode = "untimed" -> {d \in DrawSet : lognormal_distribution(d) = 0}
    [] OTHER -> DrawSet

\* A KEEP_LAST history of depth QOS_HISTORY_SIZE receiving sample m: the
\* oldest samples are dropped to make room.
RECURSIVE KeepLast(_)
KeepLast(q) == IF Len(q) > QOS_HISTORY_SIZE THEN KeepLast(Tail(q)) ELSE q

\* Mutant of Enqueue: a full history refuses the new sample.
EnqueueKeepOldest(q, m) == IF Len(q) >= QOS_HISTORY_SIZE THEN q ELSE Append(q, m)

Enqueue(q, m) == KeepLast(Append(q, m))

\* pub_->publish(m) on topic t: every subscription of t receives m.
PublishedSlots(t, m) ==
  [s \in Subs |-> IF Listens(s, t) THEN Enqueue(slot[s], m) ELSE slot[s]]

PublishedCount(t) ==
  [s \in Subs |-> IF Listens(s, t) THEN Count(sinceTake[s]) ELSE sinceTake[s]]

\* The publish indices of the samples, kept by the same history.
PublishedSeq(t, i) ==
  [s \in Subs |-> IF Listens(s, t) THEN Enqueue(slotSeq[s], i) ELSE slotSeq[s]]

\* Mutant of Taken: the sample taken stays in the history.
TakenKept(q) == q

\* rcl_take: the sample taken leaves the history.
Taken(q) == Tail(q)

\* Mutant of GroupFree: a reentrant callback group.
GroupReentrant(n) == TRUE

\* Every callback of a node is in the node's default callback group, which is
\* mutually exclusive: the executor takes a callback only while no callback
\* of the same node is running.
GroupFree(n) == \A c \in Callbacks : NodeOf[c] = n => pc[c] = "idle"

Running == {c \in Callbacks : pc[c] # "idle"}

ThreadFree == Cardinality(Running) < NumThreads

\* Mutant of Spinning: the executor does not look at rclcpp::ok().
SpinningForever == TRUE

\* executor->spin() takes work while rclcpp::ok() and the process lives.
Spinning == ok /\ exit = "running"

CanTake(c) ==
  Spinning /\ Present(c) /\ pc[c] = "idle" /\ GroupFree(NodeOf[c]) /\ ThreadFree

\* Mutant of NextCallTime: the timer fires every second period.
NextCallTimeDoubled(t) == nextCall[t] + 2 * Period[t]

\* rcl_timer_call: the next call is one period after the previous one; when
\* that is already in the past the missed periods are skipped.
NextCallTime(t) ==
  LET n1 == nextCall[t] + Period[t]
  IN IF ~Timed THEN nextCall[t]
     ELSE IF n1 < now
       THEN n1 + (1 + ((now - n1) - 1) \div Period[t]) * Period[t]
       ELSE n1

TimerReady(t) == Timed => nextCall[t] <= now

----------------------------------------------------------------------------
\* The state after construction, before executor->spin().
Start ==
  /\ now = 0
  /\ nextCall = [t \in Timers |-> Period[t]]
  /\ slot = [s \in Subs |-> <<>>]
  /\ pc = [c \in Callbacks |-> "idle"]
  /\ arg = [c \in Callbacks |-> None]
  /\ sleep_ms = [c \in Callbacks |-> 0]
  /\ wake = [c \in Callbacks |-> 0]
  /\ msg_ = [n \in StateNodes |-> None]
  /\ lastPub = [t \in Topics |-> None]
  /\ sinceTake = [s \in Subs |-> 0]
  /\ invoked = [c \in Callbacks |-> 0]
  /\ sampled = [c \in Callbacks |-> 0]
  /\ pubs = [c \in Callbacks |-> 0]
  /\ stored = [n \in StateNodes |-> 0]
  /\ ok = TRUE
  /\ exit = "running"
  /\ slotSeq = [s \in Subs |-> <<>>]
  /\ observed = [s \in Subs |-> [idx |-> 0, msg |-> None]]
  /\ tickInput = None
  /\ delayed = FALSE

Init == Start /\ mode = "main"

InitChain == Start /\ mode = "chain"

InitUntimed == Start /\ mode = "untimed"

----------------------------------------------------------------------------
(* Steps shared by the callbacks *)

\* The executor takes subscription s: the oldest sample leaves its history
\* (it is the callback's msg argument).
TakeMessage(s) ==
  /\ slot[s] # <<>>
  /\ CanTake(s)
  /\ slot' = [slot EXCEPT ![s] = Taken(slot[s])]
  /\ slotSeq' = [slotSeq EXCEPT ![s] = Taken(slotSeq[s])]
  /\ observed' = [observed EXCEPT ![s] =
                    [idx |-> Head(slotSeq[s]), msg |-> Head(slot[s])]]
  /\ sinceTake' = [sinceTake EXCEPT ![s] = 0]
  /\ invoked' = [invoked EXCEPT ![s] = Count(@)]

\* The executor takes timer t.
TakeTimer(t) ==
  /\ TimerReady(t)
  /\ CanTake(t)
  /\ nextCall' = [nextCall EXCEPT ![t] = NextCallTime(t)]
  /\ invoked' = [invoked EXCEPT ![t] = Count(@)]

\* The callback calls lognormal_distribution().
EnterSampler(c) ==
  /\ pc' = [pc EXCEPT ![c] = "sampling"]
  /\ sampled' = [sampled EXCEPT ![c] = Count(@)]

\* pub_->publish(m) by callback c.  After rclcpp::shutdown() the publisher's
\* context is invalid and publish() returns without sending.
Publish(c, m) ==
  IF ok
    THEN /\ slot' = PublishedSlots(PubTopic[NodeOf[c]], m)
         /\ slotSeq' = PublishedSeq(PubTopic[NodeOf[c]], Count(pubs[c]))
         /\ sinceTake' = PublishedCount(PubTopic[NodeOf[c]])
         /\ lastPub' = [lastPub EXCEPT ![PubTopic[NodeOf[c]]] = m]
         /\ pubs' = [pubs EXCEPT ![c] = CountPub(c, @)]
    ELSE UNCHANGED <<slot, slotSeq, sinceTake, lastPub, pubs>>

\* The callback returns: its thread and its callback group are free again.
Return(c) ==
  /\ pc' = [pc EXCEPT ![c] = "idle"]
  /\ arg' = [arg EXCEPT ![c] = None]
  /\ sleep_ms' = [sleep_ms EXCEPT ![c] = 0]
  /\ wake' = [wake EXCEPT ![c] = 0]

\* rclcpp::sleep_for(d) has returned: at least d has passed since the call,
\* or rclcpp::shutdown() has interrupted the sleep.
Slept(c) ==
  /\ exit = "running"
  /\ pc[c] = "sleeping"
  /\ (~Timed \/ ~ok \/ wake[c] <= now)

\* lognormal_distribution() returns to callback c, which passes the value
\* to rclcpp::sleep_for.
lognormal_return(c) ==
  /\ exit = "running"
  /\ pc[c] = "sampling"
  /\ \E d \in Draws :
       /\ sleep_ms' = [sleep_ms EXCEPT ![c] = lognormal_distribution(d)]
       /\ wake' = [wake EXCEPT ![c] = now + lognormal_distribution(d)]
       /\ delayed' = (delayed \/ lognormal_distribution(d) > 0)
  /\ pc' = [pc EXCEPT ![c] = "sleeping"]
  /\ UNCHANGED <<now, nextCall, slot, arg, msg_, lastPub, sinceTake, invoked,
                 sampled, pubs, stored, proc, slotSeq, observed, tickInput>>

\* The function-local statics seed_gen, engine and dist are constructed by
\* the first call that gets through their initialisation.
SamplerInitialised ==
  \E c \in Callbacks : sampled[c] > (IF pc[c] = "sampling" THEN 1 ELSE 0)

\* std::random_device throws (its constructor, or seed_gen() seeding the
\* engine).  No callback and no executor thread catches: the exception leaves
\* the thread's function and std::terminate ends the process.
lognormal_throw(c) ==
  /\ exit = "running"
  /\ pc[c] = "sampling"
  /\ ~SamplerInitialised
  /\ exit' = "terminate"
  /\ UNCHANGED <<now, nextCall, slot, pc, arg, sleep_ms, wake, msg_, lastPub,
                 sinceTake, invoked, sampled, pubs, stored, mode, ok, slotSeq,
                 observed, tickInput, delayed>>

\* Mutant of MoveAssign: only the first message is stored.
MoveAssignOnce(old, new) == IF old = None THEN new ELSE old

\* Mutant of MoveAssign: the stored message is stamped with the arrival time.
MoveAssignRestamped(old, new) == [new EXCEPT !.stamp = now]

\* msg_ = std::move(msg): msg_ owns the message received, as received.
MoveAssign(old, new) == new

----------------------------------------------------------------------------
(* SensorDummy *)

\* Mutant of SensorStamp: the stamp is left at its default value.
SensorUnstamped(t) == 0

\* Mutant of SensorStamp: the stamp is the time within the current second,
\* scaled down to the model: it wraps every two periods.
SensorStampWrapped(t) == now % (2 * Period[t])

\* msg->header.stamp = now()
SensorStamp(t) == now

\* The timer callback: a fresh message, stamped and published at once.
SensorDummy_callback(t) ==
  /\ NodeOf[t] \in SensorNodes
  /\ TakeTimer(t)
  /\ Publish(t, [stamp |-> SensorStamp(t), src |-> NodeOf[t], seq |-> Count(pubs[t])])
  /\ UNCHANGED <<now, pc, arg, sleep_ms, wake, msg_, sampled, stored, proc,
                 observed, tickInput, delayed>>

----------------------------------------------------------------------------
(* ActuatorDummy *)

\* Mutant of ActuatorDummy_callback: it sleeps like the other callbacks.
ActuatorDummy_sleeps ==
  /\ TakeMessage("actuator_dummy_node.sub_")
  /\ arg' = [arg EXCEPT !["actuator_dummy_node.sub_"] =
                          Head(slot["actuator_dummy_node.sub_"])]
  /\ EnterSampler("actuator_dummy_node.sub_")
  /\ UNCHANGED <<now, nextCall, sleep_ms, wake, msg_, lastPub, pubs, stored,
                 proc, tickInput, delayed>>

\* The subscription callback: (void)msg.
ActuatorDummy_callback ==
  /\ TakeMessage("actuator_dummy_node.sub_")
  /\ UNCHANGED <<now, nextCall, pc, arg, sleep_ms, wake, msg_, lastPub, sampled,
                 pubs, stored, proc, tickInput, delayed>>

----------------------------------------------------------------------------
(* NoDependencyNode *)

\* The subscription callback up to its call of lognormal_distribution().
NoDependencyNode_begin ==
  /\ TakeMessage("filter_node.sub_")
  /\ arg' = [arg EXCEPT !["filter_node.sub_"] = Head(slot["filter_node.sub_"])]
  /\ EnterSampler("filter_node.sub_")
  /\ UNCHANGED <<now, nextCall, sleep_ms, wake, msg_, lastPub, pubs, stored,
                 proc, tickInput, delayed>>

\* Mutant of RelayMessage: the message is stamped again when it is published.
RelayRestamped(m) == [m EXCEPT !.stamp = now]

\* pub_->publish(std::move(msg)): the message received is the one published.
RelayMessage(m) == m

\* The subscription callback after the sleep.
NoDependencyNode_end ==
  /\ Slept("filter_node.sub_")
  /\ Publish("filter_node.sub_", RelayMessage(arg["filter_node.sub_"]))
  /\ Return("filter_node.sub_")
  /\ UNCHANGED <<now, nextCall, msg_, invoked, sampled, stored, proc, observed,
                 tickInput, delayed>>

----------------------------------------------------------------------------
(* TimerDependencyNode *)

TimerDependencyNode_sub_begin ==
  /\ TakeMessage("timer_driven_node.sub_")
  /\ arg' = [arg EXCEPT !["timer_driven_node.sub_"] =
                          Head(slot["timer_driven_node.sub_"])]
  /\ EnterSampler("timer_driven_node.sub_")
  /\ UNCHANGED <<now, nextCall, sleep_ms, wake, msg_, lastPub, pubs, stored,
                 proc, tickInput, delayed>>

\* msg_ = std::move(msg)
TimerDependencyNode_sub_end ==
  /\ Slept("timer_driven_node.sub_")
  /\ msg_' = [msg_ EXCEPT !["timer_driven_node"] =
                MoveAssign(@, arg["timer_driven_node.sub_"])]
  /\ stored' = [stored EXCEPT !["timer_driven_node"] = Count(@)]
  /\ Return("timer_driven_node.sub_")
  /\ UNCHANGED <<now, nextCall, slot, lastPub, sinceTake, invoked, sampled, pubs,
                 proc, slotSeq, observed, tickInput, delayed>>

TimerDependencyNode_timer_begin ==
  /\ TakeTimer("timer_driven_node.timer_")
  /\ EnterSampler("timer_driven_node.timer_")
  /\ tickInput' = lastPub[InputTopic("timer_driven_node.sub_")]
  /\ UNCHANGED <<now, slot, arg, sleep_ms, wake, msg_, lastPub, sinceTake,
                 pubs, stored, proc, slotSeq, observed, delayed>>

\* Mutant of HasMessage: the null check is missing.
AlwaysPublish(m) == TRUE

\* if (msg_)
HasMessage(m) == m # None

\* Mutant of AfterPublishCopy: the message is moved out, as in SubDependencyNode.
AfterPublishCleared(m) == None

\* pub_->publish(*msg_) publishes a copy: msg_ keeps its message.
AfterPublishCopy(m) == m

\* The timer callback after the sleep.
TimerDependencyNode_timer_end ==
  /\ Slept("timer_driven_node.timer_")
  /\ IF HasMessage(msg_["timer_driven_node"])
       THEN /\ Publish("timer_driven_node.timer_", msg_["timer_driven_node"])
            /\ msg_' = [msg_ EXCEPT !["timer_driven_node"] = AfterPublishCopy(@)]
       ELSE UNCHANGED <<slot, slotSeq, sinceTake, lastPub, pubs, msg_>>
  /\ Return("timer_driven_node.timer_")
  /\ tickInput' = None
  /\ UNCHANGED <<now, nextCall, invoked, sampled, stored, proc, observed, delayed>>

----------------------------------------------------------------------------
(* SubDependencyNode *)

SubDependencyNode_sub1_begin ==
  /\ TakeMessage("message_driven_node.sub1_")
  /\ arg' = [arg EXCEPT !["message_driven_node.sub1_"] =
                          Head(slot["message_driven_node.sub1_"])]
  /\ EnterSampler("message_driven_node.sub1_")
  /\ UNCHANGED <<now, nextCall, sleep_ms, wake, msg_, lastPub, pubs, stored,
                 proc, tickInput, delayed>>

\* msg_ = std::move(msg)  (msg_tmp, which copied the stamp, is dropped unused)
SubDependencyNode_sub1_end ==
  /\ Slept("message_driven_node.sub1_")
  /\ msg_' = [msg_ EXCEPT !["message_driven_node"] =
                MoveAssign(@, arg["message_driven_node.sub1_"])]
  /\ stored' = [stored EXCEPT !["message_driven_node"] = Count(@)]
  /\ Return("message_driven_node.sub1_")
  /\ UNCHANGED <<now, nextCall, slot, lastPub, sinceTake, invoked, sampled, pubs,
                 proc, slotSeq, observed, tickInput, delayed>>

SubDependencyNode_sub2_begin ==
  /\ TakeMessage("message_driven_node.sub2_")
  /\ arg' = [arg EXCEPT !["message_driven_node.sub2_"] =
                          Head(slot["message_driven_node.sub2_"])]
  /\ EnterSampler("message_driven_node.sub2_")
  /\ UNCHANGED <<now, nextCall, sleep_ms, wake, msg_, lastPub, pubs, stored,
                 proc, tickInput, delayed>>

\* Mutant of AfterPublishMove: a copy is published, as in TimerDependencyNode.
AfterPublishKept(m) == m

\* pub_->publish(std::move(msg_)) moves the unique_ptr out: msg_ is null after.
AfterPublishMove(m) == None

\* Mutant of TriggerPublishes: the trigger message itself is forwarded.
TriggerForwarded(held, trigger) == trigger

\* (void)msg; ... pub_->publish(std::move(msg_)): the trigger message is
\* dropped and the message held is the one published.
TriggerPublishes(held, trigger) == held

\* The trigger callback after the sleep.
SubDependencyNode_sub2_end ==
  /\ Slept("message_driven_node.sub2_")
  /\ IF HasMessage(msg_["message_driven_node"])
       THEN /\ Publish("message_driven_node.sub2_",
                       TriggerPublishes(msg_["message_driven_node"],
                                        arg["message_driven_node.sub2_"]))
            /\ msg_' = [msg_ EXCEPT !["message_driven_node"] = AfterPublishMove(@)]
       ELSE UNCHANGED <<slot, slotSeq, sinceTake, lastPub, pubs, msg_>>
  /\ Return("message_driven_node.sub2_")
  /\ UNCHANGED <<now, nextCall, invoked, sampled, stored, proc, observed,
                 tickInput, delayed>>

----------------------------------------------------------------------------
(* Time *)

\* The instants at which a timer becomes ready or a sleep ends.
Instants == {nextCall[t] : t \in {x \in Timers : Present(x)}} \cup
            {wake[c] : c \in {x \in Callbacks : pc[x] = "sleeping"}}

\* A callback the executor finds ready in its wait set.
Ready(c) == IF c \in Timers THEN TimerReady(c) ELSE slot[c] # <<>>

\* The executor's threads block in the wait set and run what is ready at
\* once, and the statements of a callback other than sleep_for take no time:
\* time passes, up to the next instant, only when no thread can take a
\* callback and no running callback can take its next step.
Tick ==
  /\ Timed
  /\ Spinning
  /\ \A c \in Callbacks : ~(Ready(c) /\ CanTake(c))
  /\ \A c \in Callbacks : pc[c] # "sampling" /\ ~Slept(c)
  /\ \E i \in Instants : i > now /\ i <= Horizon
  /\ now' = SetMin({i \in Instants : i > now})
  /\ UNCHANGED <<nextCall, slot, pc, arg, sleep_ms, wake, msg_, lastPub,
                 sinceTake, invoked, sampled, pubs, stored, proc, slotSeq,
                 observed, tickInput, delayed>>

----------------------------------------------------------------------------
(* The process *)

\* The signal handler rclcpp installs calls rclcpp::shutdown(): rclcpp::ok()
\* is false from then on, the executor's wait and every sleep_for wake up.
Shutdown ==
  /\ Spinning
  /\ ok' = FALSE
  /\ UNCHANGED <<now, nextCall, slot, pc, arg, sleep_ms, wake, msg_, lastPub,
                 sinceTake, invoked, sampled, pubs, stored, mode, exit, slotSeq,
                 observed, tickInput, delayed>>

\* executor->spin() returns when every thread has left its callback and
\* joined; main() then calls rclcpp::shutdown() and returns 0.
MainReturn ==
  /\ ~ok
  /\ exit = "running"
  /\ \A c \in Callbacks : pc[c] = "idle"
  /\ exit' = "return 0"
  /\ UNCHANGED <<now, nextCall, slot, pc, arg, sleep_ms, wake, msg_, lastPub,
                 sinceTake, invoked, sampled, pubs, stored, mode, ok, slotSeq,
                 observed, tickInput, delayed>>

----------------------------------------------------------------------------
Next ==
  \/ \E t \in {"sensor_dummy_node.timer_", "drive_node.timer_"} :
       SensorDummy_callback(t)
  \/ ActuatorDummy_callback
  \/ NoDependencyNode_begin
  \/ NoDependencyNode_end
  \/ TimerDependencyNode_sub_begin
  \/ TimerDependencyNode_sub_end
  \/ TimerDependencyNode_timer_begin
  \/ TimerDependencyNode_timer_end
  \/ SubDependencyNode_sub1_begin
  \/ SubDependencyNode_sub1_end
  \/ SubDependencyNode_sub2_begin
  \/ SubDependencyNode_sub2_end
  \/ \E c \in Callbacks : lognormal_return(c)
  \/ Tick

Spec == Init /\ [][Next]_vars

\* The chain: only its callbacks exist.
NextChain ==
  \/ SensorDummy_callback("sensor_dummy_node.timer_")
  \/ NoDependencyNode_begin
  \/ NoDependencyNode_end
  \/ TimerDependencyNode_sub_begin
  \/ TimerDependencyNode_sub_end
  \/ TimerDependencyNode_timer_begin
  \/ TimerDependencyNode_timer_end
  \/ \E c \in ChainCallbacks : lognormal_return(c)
  \/ Tick

SpecChain == InitChain /\ [][NextChain]_vars

\* The run of main() with the shutdown signal arriving at any moment.
NextShutdown == Next \/ Shutdown \/ MainReturn

SpecShutdown == Init /\ [][NextShutdown]_vars

\* The run of main() with std::random_device free to throw.
NextFault == Next \/ \E c \in Callbacks : lognormal_throw(c)

SpecFault == Init /\ [][NextFault]_vars


----------------------------------------------------------------------------
(* Properties *)

\* Callback c runs the statements after its sleep in this step.
Ends(c) == pc[c] = "sleeping" /\ pc'[c] = "idle"

\* C1 (latest-wins): a subscription's history never holds more than one
\* pending message, and after one or more publishes to its topic with no take
\* in between it holds exactly the message published last.
LatestWins ==
  \A s \in Subs :
    /\ Len(slot[s]) <= 1
    /\ sinceTake[s] >= 1 => slot[s] = <<lastPub[SubTopic[s]]>>

\* Witness of C1: a history overwritten at least once holds the third message
\* of its topic, not the ones before it.
LatestWinsWitness ==
  /\ sinceTake["filter_node.sub_"] >= 2
  /\ pubs["sensor_dummy_node.timer_"] = 3
  /\ slot["filter_node.sub_"] = <<lastPub["/topic1"]>>
  /\ lastPub["/topic1"].seq = 3

\* C2 (hold-last): once the subscription callback of timer_driven_node has
\* stored a message, every timer callback publishes, on completing, exactly the
\* stored message, and msg_ still holds it afterwards.
HoldLast ==
  [][(Ends("timer_driven_node.timer_") /\ stored["timer_driven_node"] >= 1) =>
       /\ pubs'["timer_driven_node.timer_"] = pubs["timer_driven_node.timer_"] + 1
       /\ lastPub'["/topic4"] = msg_["timer_driven_node"]
       /\ lastPub'["/topic4"].stamp >= 0
       /\ msg_'["timer_driven_node"] = msg_["timer_driven_node"]]_vars

\* Witness of C2: two timer callbacks have published while only one message
\* was ever stored, so the second republished the stamp of the first.
HoldLastWitness ==
  /\ stored["timer_driven_node"] = 1
  /\ pubs["timer_driven_node.timer_"] = 2
  /\ pc["timer_driven_node.sub_"] = "idle"
  /\ lastPub["/topic4"] = msg_["timer_driven_node"]

\* C3 (consume-once): a trigger callback of message_driven_node that finds a
\* stored message publishes it and leaves msg_ empty; one that finds msg_ empty
\* publishes nothing; so the messages published never outnumber the stores.
ConsumeOnce ==
  /\ [](pubs["message_driven_node.sub2_"] <= stored["message_driven_node"])
  /\ [][Ends("message_driven_node.sub2_") =>
         /\ msg_'["message_driven_node"] = None
         /\ IF msg_["message_driven_node"] # None
              THEN /\ pubs'["message_driven_node.sub2_"] =
                        pubs["message_driven_node.sub2_"] + 1
                   /\ lastPub'["/topic3"] = msg_["message_driven_node"]
              ELSE /\ pubs'["message_driven_node.sub2_"] =
                        pubs["message_driven_node.sub2_"]
                   /\ lastPub'["/topic3"] = lastPub["/topic3"]
                   /\ slot' = slot]_vars

\* Witness of C3: the only message stored so far has been published and a
\* second trigger callback is running with msg_ empty.
ConsumeOnceWitness ==
  /\ stored["message_driven_node"] = 1
  /\ pubs["message_driven_node.sub2_"] = 1
  /\ pc["message_driven_node.sub1_"] = "idle"
  /\ msg_["message_driven_node"] = None
  /\ pc["message_driven_node.sub2_"] = "sleeping"

\* C4 (no-data-no-publish): a node whose subscription callback has never
\* stored a message has published nothing.
NoDataNoPublish ==
  /\ stored["timer_driven_node"] = 0 => pubs["timer_driven_node.timer_"] = 0
  /\ stored["message_driven_node"] = 0 => pubs["message_driven_node.sub2_"] = 0

\* Witness of C4: the timer callback and the trigger callback have both run
\* to completion while neither node had stored a message.
NoDataNoPublishWitness ==
  /\ stored["timer_driven_node"] = 0
  /\ invoked["timer_driven_node.timer_"] >= 1
  /\ pc["timer_driven_node.timer_"] = "idle"
  /\ stored["message_driven_node"] = 0
  /\ invoked["message_driven_node.sub2_"] >= 1
  /\ pc["message_driven_node.sub2_"] = "idle"

\* C5 (per-node mutual exclusion): no two callbacks of one node run at the
\* same time.
NodeMutualExclusion ==
  \A n \in Nodes :
    Cardinality({c \in Callbacks : NodeOf[c] = n /\ pc[c] # "idle"}) <= 1

\* Witness of C5: a callback of a node is ready, and a thread is free, while
\* another callback of the same node is running.
NodeMutualExclusionWitness ==
  /\ pc["timer_driven_node.sub_"] # "idle"
  /\ TimerReady("timer_driven_node.timer_")
  /\ ThreadFree
  /\ pc["message_driven_node.sub1_"] = "idle"
  /\ pc["message_driven_node.sub2_"] = "idle"

\* C6 (sampler safe to call concurrently): no two callbacks are inside
\* lognormal_distribution(), which guards its static engine with nothing, at
\* the same time.
SamplerExclusive ==
  Cardinality({c \in Callbacks : pc[c] = "sampling"}) <= 1

\* C7 as claimed (latency bound): every latency slept is above 0 and at most
\* max_latency_ms.
LatencyPositive ==
  \A c \in Callbacks :
    pc[c] = "sleeping" => 0 < sleep_ms[c] /\ sleep_ms[c] <= max_latency_ms

\* C7 as amended: every latency slept is at least 0 and at most
\* max_latency_ms.
LatencyBounded ==
  \A c \in Callbacks :
    pc[c] = "sleeping" => 0 <= sleep_ms[c] /\ sleep_ms[c] <= max_latency_ms

\* Witness of C7: one callback sleeps a draw truncated to 0 while another
\* sleeps a draw clamped to max_latency_ms.
LatencyBoundedWitness ==
  \E c1, c2 \in Callbacks :
    /\ pc[c1] = "sleeping" /\ sleep_ms[c1] = 0
    /\ pc[c2] = "sleeping" /\ sleep_ms[c2] = max_latency_ms

\* C8 as claimed (sink): every invocation of the actuator's callback samples
\* a latency.
SinkSamples ==
  sampled["actuator_dummy_node.sub_"] = invoked["actuator_dummy_node.sub_"]

\* C8 as amended: the actuator's callback discards the message at once: it
\* never samples a latency, never sleeps and never publishes.
SinkDiscards ==
  /\ sampled["actuator_dummy_node.sub_"] = 0
  /\ pc["actuator_dummy_node.sub_"] = "idle"
  /\ pubs["actuator_dummy_node.sub_"] = 0

\* Witness of C8: the actuator's callback has run.
SinkDiscardsWitness ==
  /\ invoked["actuator_dummy_node.sub_"] >= 1
  /\ slot["actuator_dummy_node.sub_"] = <<>>

\* C9 (relay): every invocation of filter_node's callback publishes exactly
\* one message, after its sleep is over, and that message is the one it
\* received; it publishes nothing without a receipt.
RelayRepublishes ==
  /\ [](pubs["filter_node.sub_"] +
          (IF pc["filter_node.sub_"] = "idle" THEN 0 ELSE 1) =
        invoked["filter_node.sub_"])
  /\ [][pubs'["filter_node.sub_"] # pubs["filter_node.sub_"] =>
         /\ Ends("filter_node.sub_")
         /\ wake["filter_node.sub_"] <= now
         /\ pubs'["filter_node.sub_"] = pubs["filter_node.sub_"] + 1
         /\ arg["filter_node.sub_"] # None
         /\ lastPub'["/topic2"] = arg["filter_node.sub_"]]_vars

\* Witness of C9: the relay has published, after a sleep, a message stamped
\* earlier than the time of publication.
RelayRepublishesWitness ==
  /\ pubs["filter_node.sub_"] >= 1
  /\ pc["filter_node.sub_"] = "idle"
  /\ lastPub["/topic2"].stamp < now
  /\ slot["message_driven_node.sub1_"] = <<lastPub["/topic2"]>>

\* C10 (source): a SensorDummy never samples a latency or sleeps; each timer
\* tick publishes, in the same step, one fresh message stamped with the
\* current time; the stamps it publishes never decrease.
SourceStampsNow ==
  /\ [](\A t \in {"sensor_dummy_node.timer_", "drive_node.timer_"} :
          /\ sampled[t] = 0
          /\ pc[t] = "idle"
          /\ pubs[t] = invoked[t])
  /\ [][\A t \in {"sensor_dummy_node.timer_", "drive_node.timer_"} :
          invoked'[t] # invoked[t] =>
            /\ now' = now
            /\ lastPub'[PubTopic[NodeOf[t]]].stamp = now
            /\ lastPub'[PubTopic[NodeOf[t]]].seq = pubs[t] + 1
            /\ lastPub'[PubTopic[NodeOf[t]]].stamp >=
                 lastPub[PubTopic[NodeOf[t]]].stamp]_vars

\* Witness of C10: the sensor has published twice, the second message this
\* instant and with a later stamp than the first.
SourceStampsNowWitness ==
  /\ pubs["sensor_dummy_node.timer_"] = 2
  /\ lastPub["/topic1"].stamp = now
  /\ lastPub["/topic1"].seq = 2
  /\ now > Period["sensor_dummy_node.timer_"]

\* The untimed run of main(): the callbacks alone, the clock abstracted.
NextUntimed ==
  \/ \E t \in {"sensor_dummy_node.timer_", "drive_node.timer_"} :
       SensorDummy_callback(t)
  \/ ActuatorDummy_callback
  \/ NoDependencyNode_begin
  \/ NoDependencyNode_end
  \/ TimerDependencyNode_sub_begin
  \/ TimerDependencyNode_sub_end
  \/ TimerDependencyNode_timer_begin
  \/ TimerDependencyNode_timer_end
  \/ SubDependencyNode_sub1_begin
  \/ SubDependencyNode_sub1_end
  \/ SubDependencyNode_sub2_begin
  \/ SubDependencyNode_sub2_end
  \/ \E c \in Callbacks : lognormal_return(c)

\* A running callback goes on: the sampler returns, the sleep ends, the
\* statements after it run.
Progress ==
  /\ \A c \in Callbacks : WF_vars(lognormal_return(c))
  /\ WF_vars(NoDependencyNode_end)
  /\ WF_vars(TimerDependencyNode_sub_end)
  /\ WF_vars(TimerDependencyNode_timer_end)
  /\ WF_vars(SubDependencyNode_sub1_end)
  /\ WF_vars(SubDependencyNode_sub2_end)

\* Weak fairness of the executor: a callback that stays ready, with its
\* callback group and a thread free, is taken.
WeakDispatch ==
  /\ \A t \in {"sensor_dummy_node.timer_", "drive_node.timer_"} :
       WF_vars(SensorDummy_callback(t))
  /\ WF_vars(ActuatorDummy_callback)
  /\ WF_vars(NoDependencyNode_begin)
  /\ WF_vars(TimerDependencyNode_sub_begin)
  /\ WF_vars(TimerDependencyNode_timer_begin)
  /\ WF_vars(SubDependencyNode_sub1_begin)
  /\ WF_vars(SubDependencyNode_sub2_begin)

\* Strong fairness of the executor: a callback that can be taken again and
\* again is taken.
StrongDispatch ==
  /\ \A t \in {"sensor_dummy_node.timer_", "drive_node.timer_"} :
       SF_vars(SensorDummy_callback(t))
  /\ SF_vars(ActuatorDummy_callback)
  /\ SF_vars(NoDependencyNode_begin)
  /\ SF_vars(TimerDependencyNode_sub_begin)
  /\ SF_vars(TimerDependencyNode_timer_begin)
  /\ SF_vars(SubDependencyNode_sub1_begin)
  /\ SF_vars(SubDependencyNode_sub2_begin)

SpecLive == InitUntimed /\ [][NextUntimed]_vars /\ Progress /\ WeakDispatch

----------------------------------------------------------------------------
\* C11: per-slot delivery order.  The samples a subscription's callback
\* observes are a subsequence of the publish sequence of its topic: the index
\* of each sample taken is greater than the index of the one taken before and
\* is the index of a message that has been published, and the sample with the
\* latest index is the message published last.  Samples are dropped, never
\* reordered or observed twice.
DeliveryOrder ==
  [][\A s \in Subs :
       invoked'[s] # invoked[s] =>
         /\ observed'[s].idx > observed[s].idx
         /\ observed'[s].idx <= pubs[PublisherOf[SubTopic[s]]]
         /\ (observed'[s].idx = pubs[PublisherOf[SubTopic[s]]]
               => observed'[s].msg = lastPub[SubTopic[s]])]_vars

\* A callback has run twice and has missed a sample in between.
DeliveryOrderWitness ==
  \E s \in Subs : invoked[s] >= 2 /\ observed[s].idx > invoked[s]

----------------------------------------------------------------------------
(* The chain  source --A--> relay --B--> timer consumer --C--> *)

\* The timer consumer publishes on C in this step.
PublishesOnC ==
  pubs'["timer_driven_node.timer_"] # pubs["timer_driven_node.timer_"]

\* C12: end-to-end monotonicity.  The timestamps of the messages published
\* on C never decrease in publish order, whatever the interleaving of the
\* callbacks and whatever the latencies.
ChainMonotonic ==
  [][PublishesOnC => lastPub'["/topic4"].stamp >= lastPub["/topic4"].stamp]_vars

\* Two messages have been published on C, the last with a later stamp than
\* the source's first.
ChainMonotonicWitness ==
  /\ mode = "chain"
  /\ pubs["timer_driven_node.timer_"] >= 2
  /\ lastPub["/topic4"].stamp >= 2 * Period["sensor_dummy_node.timer_"]

----------------------------------------------------------------------------
\* C15: cooperative shutdown.  After the shutdown signal no callback
\* invocation is started; a callback in flight, also one in its latency
\* sleep, goes on through its remaining steps (a subscription callback that
\* stores still stores the message it received) and can always take its next
\* step; main returns 0, and only once every callback has returned.
CooperativeShutdown ==
  /\ [](exit \in {"running", "return 0"})
  /\ []((~ok /\ exit = "running") => ENABLED <<NextShutdown>>_vars)
  /\ [][/\ ~ok => invoked' = invoked
        /\ \A c \in Callbacks :
             (~ok /\ pc'[c] # pc[c]) =>
                \/ pc[c] = "sampling" /\ pc'[c] = "sleeping"
                \/ pc[c] = "sleeping" /\ pc'[c] = "idle"
        /\ \A n \in StateNodes :
             (~ok /\ stored'[n] # stored[n]) =>
                \E c \in Subs : NodeOf[c] = n /\ Ends(c) /\ msg_'[n] = arg[c]
        /\ exit' # exit =>
             ~ok /\ exit' = "return 0" /\ \A c \in Callbacks : pc[c] = "idle"]_vars

\* main has returned 0 after a callback of filter_node that was in flight at
\* the signal has completed (its publish, after shutdown, sent nothing).
CooperativeShutdownWitness ==
  /\ exit = "return 0"
  /\ invoked["filter_node.sub_"] > pubs["filter_node.sub_"]

----------------------------------------------------------------------------
\* C16: a failure of the sampler is confined to the callback invocation it
\* happens in: the process, with its executor threads, goes on running.
SamplerFaultConfined == exit # "terminate"

----------------------------------------------------------------------------
\* C17: timestamp preservation in SubDependencyNode.  The message the
\* primary-input callback stores is the message it received, with the stamp
\* it arrived with, and the message published on a trigger carries that stamp
\* and comes from the primary input, not from the trigger.
StampPreserved ==
  [][/\ Ends("message_driven_node.sub1_") =>
          msg_'["message_driven_node"] = observed["message_driven_node.sub1_"].msg
     /\ pubs'["message_driven_node.sub2_"] # pubs["message_driven_node.sub2_"] =>
          /\ lastPub'["/topic3"].stamp =
               observed["message_driven_node.sub1_"].msg.stamp
          /\ lastPub'["/topic3"].src =
               observed["message_driven_node.sub1_"].msg.src]_vars

\* A message has been published on a trigger, after its arrival, with a stamp
\* older than the stamp of the trigger message.
StampPreservedWitness ==
  /\ pubs["message_driven_node.sub2_"] >= 1
  /\ lastPub["/topic3"].stamp < observed["message_driven_node.sub2_"].msg.stamp
  /\ lastPub["/topic3"].stamp < now

----------------------------------------------------------------------------
\* Invocations of callback c that have returned.
Completed(c) == invoked[c] - (IF pc[c] = "idle" THEN 0 ELSE 1)

\* C18: SubDependencyNode has published at most as many messages as
\* primary-input callbacks have completed and at most as many as trigger
\* callbacks have completed; NoDependencyNode has published at most as many
\* messages as have been published on its input topic.
PublicationCounts ==
  /\ pubs["message_driven_node.sub2_"] <= Completed("message_driven_node.sub1_")
  /\ pubs["message_driven_node.sub2_"] <= Completed("message_driven_node.sub2_")
  /\ pubs["filter_node.sub_"] <= pubs[PublisherOf[SubTopic["filter_node.sub_"]]]

\* Both nodes have published, each fewer messages than it could have.
PublicationCountsWitness ==
  /\ pubs["message_driven_node.sub2_"] >= 1
  /\ pubs["message_driven_node.sub2_"] < Completed("message_driven_node.sub1_")
  /\ pubs["message_driven_node.sub2_"] < Completed("message_driven_node.sub2_")
  /\ pubs["filter_node.sub_"] >= 1
  /\ pubs["filter_node.sub_"] < pubs["sensor_dummy_node.timer_"]

----------------------------------------------------------------------------
\* C19: in the topology of main, every message published on /topic2, /topic3
\* or /topic4 is one sensor_dummy_node stamped and published on /topic1; a
\* message of drive_node only triggers and is never published on /topic3 or
\* /topic4.
SensorStampsOnly ==
  \A t \in {"/topic2", "/topic3", "/topic4"} :
    pubs[PublisherOf[t]] >= 1 =>
      /\ lastPub[t].src = "sensor_dummy_node"
      /\ lastPub[t].seq \in 1..pubs["sensor_dummy_node.timer_"]
      /\ lastPub[t].stamp <= lastPub["/topic1"].stamp

\* A message has come through to /topic4 after a trigger of drive_node.
SensorStampsOnlyWitness ==
  /\ pubs["timer_driven_node.timer_"] >= 1
  /\ pubs["drive_node.timer_"] >= 1
  /\ lastPub["/topic4"].src = "sensor_dummy_node"

----------------------------------------------------------------------------
\* actuator_dummy_node's callback receives a message that sensor_dummy_node
\* produced.
ActuatorReceives ==
  /\ ActuatorDummy_callback
  /\ observed'["actuator_dummy_node.sub_"].msg.src = "sensor_dummy_node"

\* C20 as claimed: with the timers ticking and every callback that stays
\* enabled eventually scheduled (weak fairness), actuator_dummy_node receives
\* a message on /topic4 infinitely often.
ActuatorLive == []<><<ActuatorReceives>>_vars

\* C20 as amended: actuator_dummy_node receives a message on /topic4
\* infinitely often when the scheduling is strongly fair, that is when every
\* callback that can be taken again and again is eventually taken.
ActuatorLiveStrong == StrongDispatch => []<><<ActuatorReceives>>_vars

\* actuator_dummy_node has received a message, message_driven_node has
\* consumed what it held, and the next message is waiting on /topic4.
ActuatorLiveWitness ==
  /\ mode = "untimed"
  /\ observed["actuator_dummy_node.sub_"].msg.src = "sensor_dummy_node"
  /\ msg_["message_driven_node"] = None
  /\ slot["actuator_dummy_node.sub_"] # <<>>

====
